---- MODULE Spec2Model ----
(***************************************************************************)
(* Domain-squatting detection pipeline of src/ai/harpoon/harpoon_a0_a3.py: *)
(* canonicalize, generate_variants, the three similarity metrics,          *)
(* score_candidates, the dry-run path of main and the status polling loop  *)
(* of run_agent_workflow.                                                  *)
(*                                                                         *)
(* A string is a sequence of characters; a character is a one-token TLA+   *)
(* string ("a", ".", " ", and the tokens "comb_acute" / "e_acute" for a    *)
(* combining mark and the precomposed letter it forms).  Python floats are *)
(* modelled as exact rationals <<numerator, denominator>> in lowest terms; *)
(* floating-point rounding error is not modelled.                          *)
(***************************************************************************)
EXTENDS Integers, Sequences, FiniteSets, TLC

VARIABLES pc, rc, approved_domains, new_domains, threshold,
          clean_approved, clean_new, variants, candidates,
          s1, s2, metrics,
          run_status, poll_count, poll_outcome

vars == <<pc, rc, approved_domains, new_domains, threshold,
          clean_approved, clean_new, variants, candidates,
          s1, s2, metrics,
          run_status, poll_count, poll_outcome>>

\* the variables of the polling loop of run_agent_workflow
pollVars == <<run_status, poll_count, poll_outcome>>

(***************************************************************************)
(* String helpers (Python str methods used by the code)                    *)
(***************************************************************************)
Max(a, b) == IF a >= b THEN a ELSE b

Min(a, b) == IF a <= b THEN a ELSE b

\* the elements of a sequence
Range(s) == {s[i] : i \in 1..Len(s)}

\* s[k:] with a 0-based Python offset k
Drop(s, k) == SubSeq(s, k + 1, Len(s))

\* d.startswith(p)
StartsWith(d, p) == Len(d) >= Len(p) /\ SubSeq(d, 1, Len(p)) = p

\* ch in s
Contains(s, ch) == \E i \in 1..Len(s) : s[i] = ch

\* index of the first occurrence of ch in s (0 when absent)
FirstIndex(s, ch) ==
    IF Contains(s, ch) THEN CHOOSE i \in 1..Len(s) : s[i] = ch /\ \A j \in 1..(i-1) : s[j] # ch
    ELSE 0

\* index of the last occurrence of ch in s (0 when absent)
LastIndex(s, ch) ==
    IF Contains(s, ch) THEN CHOOSE i \in 1..Len(s) : s[i] = ch /\ \A j \in (i+1)..Len(s) : s[j] # ch
    ELSE 0

UpperCase == <<"A", "B", "C", "D", "E", "F", "G", "H", "I", "J", "K", "L", "M", "N", "O", "P", "Q", "R", "S", "T", "U", "V", "W", "X", "Y", "Z">>

LowerCase == <<"a", "b", "c", "d", "e", "f", "g", "h", "i", "j", "k", "l", "m", "n", "o", "p", "q", "r", "s", "t", "u", "v", "w", "x", "y", "z">>

\* a lower() that leaves the case as it is
Lower_KeepCase(s) == s

\* str.lower()
Lower(s) ==
    [i \in 1..Len(s) |->
        IF \E k \in 1..Len(UpperCase) : UpperCase[k] = s[i]
        THEN LowerCase[CHOOSE k \in 1..Len(UpperCase) : UpperCase[k] = s[i]]
        ELSE s[i]]

Whitespace == {" ", "\t"}

RECURSIVE LStrip(_)
LStrip(s) == IF Len(s) > 0 /\ s[1] \in Whitespace THEN LStrip(Tail(s)) ELSE s

RECURSIVE RStripSet(_, _)
RStripSet(s, chars) ==
    IF Len(s) > 0 /\ s[Len(s)] \in chars THEN RStripSet(SubSeq(s, 1, Len(s) - 1), chars) ELSE s

\* str.strip()
Strip(s) == RStripSet(LStrip(s), Whitespace)

\* unicodedata.normalize("NFC", s): a base letter followed by a combining
\* mark is replaced by the precomposed letter
NFC(s) ==
    LET Composes(i) == i < Len(s) /\ s[i] = "e" /\ s[i + 1] = "comb_acute"
        Absorbed(i) == i > 1 /\ s[i] = "comb_acute" /\ s[i - 1] = "e"
        Stays(i) == ~Absorbed(i)
        kept == SelectSeq([i \in 1..Len(s) |-> i], Stays)
    IN [n \in 1..Len(kept) |-> IF Composes(kept[n]) THEN "e_acute" ELSE s[kept[n]]]

\* a de-duplication that keeps the last occurrence of each element
RECURSIVE Dedupe_KeepLast(_)
Dedupe_KeepLast(xs) ==
    IF Len(xs) <= 1 THEN xs
    ELSE LET half  == Len(xs) \div 2
             left  == Dedupe_KeepLast(SubSeq(xs, 1, half))
             right == Dedupe_KeepLast(SubSeq(xs, half + 1, Len(xs)))
             IsLast(x) == x \notin Range(right)
         IN SelectSeq(left, IsLast) \o right

\* list(dict.fromkeys(xs)): first occurrences, in order (computed by halves:
\* an element of the second half stays unless the first half has it)
RECURSIVE Dedupe(_)
Dedupe(xs) ==
    IF Len(xs) <= 1 THEN xs
    ELSE LET half  == Len(xs) \div 2
             left  == Dedupe(SubSeq(xs, 1, half))
             right == Dedupe(SubSeq(xs, half + 1, Len(xs)))
             IsNew(x) == x \notin Range(left)
         IN left \o SelectSeq(right, IsNew)

(***************************************************************************)
(* canonicalize                                                            *)
(***************************************************************************)
CanonPrefixes == << <<"w", "w", "w", ".">>, <<"m", ".">>, <<"f", "t", "p", ".">> >>

MaxDomainLen == 253

\* for prefix in ["www.", "m.", "ftp."]: if d.startswith(prefix): d = d[len(prefix):]
RECURSIVE StripPrefixes(_, _)
StripPrefixes(d, k) ==
    IF k > Len(CanonPrefixes) THEN d
    ELSE IF StartsWith(d, CanonPrefixes[k])
         THEN StripPrefixes(Drop(d, Len(CanonPrefixes[k])), k + 1)
         ELSE StripPrefixes(d, k + 1)

\* the body of the loop of canonicalize up to the validation
CanonOne(domain) ==
    StripPrefixes(RStripSet(NFC(Strip(Lower(domain))), {"."}), 1)

\* the validation without the "." test
CanonValid_NoDotTest(d) == Len(d) > 0 /\ Len(d) <= MaxDomainLen

\* if d and len(d) <= 253 and "." in d
CanonValid(d) == Len(d) > 0 /\ Len(d) <= MaxDomainLen /\ Contains(d, ".")

RECURSIVE CanonClean(_)
CanonClean(domains) ==
    IF Len(domains) = 0 THEN <<>>
    ELSE LET d == CanonOne(domains[1])
         IN IF CanonValid(d) THEN <<d>> \o CanonClean(Tail(domains))
            ELSE CanonClean(Tail(domains))

canonicalize(domains) == Dedupe(CanonClean(domains))

(***************************************************************************)
(* generate_variants                                                       *)
(***************************************************************************)
\* homoglyphs with the entry for l written as "l": "i"
homoglyphs_LtoI == << <<"o", "0">>, <<"l", "i">>, <<"i", "l">>, <<"a", "@">>, <<"e", "3">>, <<"s", "5">> >>

\* homoglyphs = {"o": "0", "l": "1", "i": "l", "a": "@", "e": "3", "s": "5"}
homoglyphs == << <<"o", "0">>, <<"l", "1">>, <<"i", "l">>, <<"a", "@">>, <<"e", "3">>, <<"s", "5">> >>

\* the prefix list with an empty prefix in front
prefixes_WithEmpty == <<<<>>, <<"t", "h", "e">>, <<"m", "y">>, <<"g", "o">>, <<"w", "o", "r", "k">>, <<"j", "o", "b">>>>

prefixes == <<<<"t", "h", "e">>, <<"m", "y">>, <<"g", "o">>, <<"w", "o", "r", "k">>, <<"j", "o", "b">>>>

suffixes == <<<<"c", "a", "r", "e", "e", "r">>, <<"h", "r">>, <<"l", "o", "g", "i", "n">>, <<"s", "e", "c", "u", "r", "e">>>>

alt_tlds == <<<<"c", "o">>, <<"c", "m">>, <<"n", "e", "t">>, <<"o", "r", "g">>>>

DefaultTld == <<"c", "o", "m">>

\* domain.rsplit(".", 1)[0] if "." in domain else domain
BaseOf(domain) ==
    IF Contains(domain, ".") THEN SubSeq(domain, 1, LastIndex(domain, ".") - 1) ELSE domain

\* domain.rsplit(".", 1)[1] if "." in domain else "com"
TldOf(domain) ==
    IF Contains(domain, ".") THEN Drop(domain, LastIndex(domain, ".")) ELSE DefaultTld

\* ReplaceFirst without the count argument: every occurrence is replaced
ReplaceFirst_All(base, char, replacement) ==
    [i \in 1..Len(base) |-> IF base[i] = char THEN replacement ELSE base[i]]

\* base.replace(char, replacement, 1)
ReplaceFirst(base, char, replacement) ==
    IF Contains(base, char)
    THEN [i \in 1..Len(base) |-> IF i = FirstIndex(base, char) THEN replacement ELSE base[i]]
    ELSE base

RECURSIVE HomoglyphVariants(_, _, _)
HomoglyphVariants(base, tld, k) ==
    IF k > Len(homoglyphs) THEN <<>>
    ELSE (IF Contains(base, homoglyphs[k][1])
          THEN << ReplaceFirst(base, homoglyphs[k][1], homoglyphs[k][2]) \o <<".">> \o tld >>
          ELSE <<>>)
         \o HomoglyphVariants(base, tld, k + 1)

PrefixVariants(base, tld) ==
    [k \in 1..Len(prefixes) |-> prefixes[k] \o base \o <<".">> \o tld]

\* SuffixVariants with the hyphenated variant appended first
RECURSIVE SuffixVariants_HyphenFirst(_, _, _)
SuffixVariants_HyphenFirst(base, tld, k) ==
    IF k > Len(suffixes) THEN <<>>
    ELSE << base \o <<"-">> \o suffixes[k] \o <<".">> \o tld,
            base \o suffixes[k] \o <<".">> \o tld >>
         \o SuffixVariants_HyphenFirst(base, tld, k + 1)

RECURSIVE SuffixVariants(_, _, _)
SuffixVariants(base, tld, k) ==
    IF k > Len(suffixes) THEN <<>>
    ELSE << base \o suffixes[k] \o <<".">> \o tld,
            base \o <<"-">> \o suffixes[k] \o <<".">> \o tld >>
         \o SuffixVariants(base, tld, k + 1)

\* TldVariants with the test on the original tld inverted
RECURSIVE TldVariants_SameOnly(_, _, _)
TldVariants_SameOnly(base, tld, k) ==
    IF k > Len(alt_tlds) THEN <<>>
    ELSE (IF alt_tlds[k] = tld THEN << base \o <<".">> \o alt_tlds[k] >> ELSE <<>>)
         \o TldVariants_SameOnly(base, tld, k + 1)

RECURSIVE TldVariants(_, _, _)
TldVariants(base, tld, k) ==
    IF k > Len(alt_tlds) THEN <<>>
    ELSE (IF alt_tlds[k] # tld THEN << base \o <<".">> \o alt_tlds[k] >> ELSE <<>>)
         \o TldVariants(base, tld, k + 1)

\* the variants appended for one approved domain
VariantsOf(domain) ==
    LET base == BaseOf(domain)
        tld == TldOf(domain)
    IN HomoglyphVariants(base, tld, 1) \o PrefixVariants(base, tld)
       \o SuffixVariants(base, tld, 1) \o TldVariants(base, tld, 1)

RECURSIVE AllVariants(_)
AllVariants(approved) ==
    IF Len(approved) = 0 THEN <<>>
    ELSE VariantsOf(approved[1]) \o AllVariants(Tail(approved))

\* a generate_variants whose result list outlives the call: each call appends
\* to what the previous call returned
generate_variants_Accumulating(approved) == variants \o Dedupe(AllVariants(approved))

generate_variants(approved) == Dedupe(AllVariants(approved))

(***************************************************************************)
(* Exact rational arithmetic standing for Python float arithmetic          *)
(***************************************************************************)
Abs(n) == IF n < 0 THEN -n ELSE n

RECURSIVE GCD(_, _)
GCD(a, b) == IF b = 0 THEN a ELSE GCD(b, a % b)

\* the rational n/d (d > 0) in lowest terms
Rat(n, d) == LET g == GCD(Abs(n), d) IN <<n \div g, d \div g>>

RZero == <<0, 1>>

ROne == <<1, 1>>

RAdd(x, y) ==
    LET l == (x[2] \div GCD(x[2], y[2])) * y[2]
    IN Rat(x[1] * (l \div x[2]) + y[1] * (l \div y[2]), l)

RNeg(x) == <<-x[1], x[2]>>

RSub(x, y) == RAdd(x, RNeg(y))

RMul(x, y) ==
    LET g1 == GCD(Abs(x[1]), y[2])
        g2 == GCD(Abs(y[1]), x[2])
    IN Rat((x[1] \div g1) * (y[1] \div g2), (x[2] \div g2) * (y[2] \div g1))

\* sign of a/b - c/d for a, c >= 0 and b, d > 0, by continued-fraction
\* expansion (no product of two denominators is formed)
RECURSIVE CmpNonNeg(_, _, _, _)
CmpNonNeg(a, b, c, d) ==
    LET q1 == a \div b
        q2 == c \div d
        r1 == a % b
        r2 == c % d
    IN IF q1 < q2 THEN -1
       ELSE IF q1 > q2 THEN 1
       ELSE IF r1 = 0 /\ r2 = 0 THEN 0
       ELSE IF r1 = 0 THEN -1
       ELSE IF r2 = 0 THEN 1
       ELSE CmpNonNeg(d, r2, b, r1)

RCmp(x, y) ==
    IF x[1] >= 0 /\ y[1] >= 0 THEN CmpNonNeg(x[1], x[2], y[1], y[2])
    ELSE IF x[1] < 0 /\ y[1] >= 0 THEN -1
    ELSE IF x[1] >= 0 /\ y[1] < 0 THEN 1
    ELSE CmpNonNeg(-y[1], y[2], -x[1], x[2])

RLess(x, y) == RCmp(x, y) < 0

RLeq(x, y) == RCmp(x, y) <= 0

\* round(x, 3) for x >= 0, as a number of thousandths (ties to even)
Round3(x) ==
    LET d  == x[2]
        i0 == x[1] \div d
        r0 == x[1] % d
        d1 == (r0 * 10) \div d
        r1 == (r0 * 10) % d
        d2 == (r1 * 10) \div d
        r2 == (r1 * 10) % d
        d3 == (r2 * 10) \div d
        r3 == (r2 * 10) % d
        t  == i0 * 1000 + d1 * 100 + d2 * 10 + d3
    IN IF r3 > d - r3 THEN t + 1
       ELSE IF r3 = d - r3 /\ t % 2 = 1 THEN t + 1
       ELSE t

(***************************************************************************)
(* levenshtein_distance                                                    *)
(***************************************************************************)
Min3(a, b, c) == Min(a, Min(b, c))

\* LevInner with a substitution costing as much as a deletion and an insertion
RECURSIVE LevInner_SubstitutionTwo(_, _, _, _, _)
LevInner_SubstitutionTwo(c1, b, previous_row, current_row, j) ==
    IF j > Len(b) THEN current_row
    ELSE LET insertions    == previous_row[j + 1] + 1
             deletions     == current_row[j] + 1
             substitutions == previous_row[j] + (IF c1 # b[j] THEN 2 ELSE 0)
         IN LevInner_SubstitutionTwo(c1, b, previous_row,
                     Append(current_row, Min3(insertions, deletions, substitutions)), j + 1)

\* the inner loop over j: extends current_row by one cell per character of b
RECURSIVE LevInner(_, _, _, _, _)
LevInner(c1, b, previous_row, current_row, j) ==
    IF j > Len(b) THEN current_row
    ELSE LET insertions    == previous_row[j + 1] + 1
             deletions     == current_row[j] + 1
             substitutions == previous_row[j] + (IF c1 # b[j] THEN 1 ELSE 0)
         IN LevInner(c1, b, previous_row,
                     Append(current_row, Min3(insertions, deletions, substitutions)), j + 1)

\* the outer loop over i: returns the last row
RECURSIVE LevOuter(_, _, _, _)
LevOuter(a, b, previous_row, i) ==
    IF i > Len(a) THEN previous_row
    ELSE LET current_row == LevInner(a[i], b, previous_row, <<i>>, 1)
         IN IF Len(current_row) = Len(previous_row)
            THEN LevOuter(a, b, current_row, i + 1)
            ELSE <<>>

levenshtein_distance(x, y) ==
    LET a == IF Len(x) < Len(y) THEN y ELSE x
        b == IF Len(x) < Len(y) THEN x ELSE y
    IN IF Len(b) = 0 THEN Len(a)
       ELSE LevOuter(a, b, [k \in 1..(Len(b) + 1) |-> k - 1], 1)[Len(b) + 1]

(***************************************************************************)
(* jaro_winkler_similarity                                                 *)
(***************************************************************************)
\* match_distance = max(len1, len2) // 2 - 1, at least 1
MatchDistance(len1, len2) ==
    LET md == (Max(len1, len2) \div 2) - 1 IN IF md < 1 THEN 1 ELSE md

\* JaroFind with the window cut one short (end = i + match_distance)
RECURSIVE JaroFind_ShortWindow(_, _, _, _, _)
JaroFind_ShortWindow(c, y, s2_matches, j, end) ==
    IF j >= end THEN 0
    ELSE IF s2_matches[j] \/ c # y[j] THEN JaroFind_ShortWindow(c, y, s2_matches, j + 1, end)
    ELSE j

\* for j in range(start, end): first j with s2[j] unmatched and equal to c
\* (0 when the loop ends without a match); j and end are 1-based, end inclusive
RECURSIVE JaroFind(_, _, _, _, _)
JaroFind(c, y, s2_matches, j, end) ==
    IF j > end THEN 0
    ELSE IF s2_matches[j] \/ c # y[j] THEN JaroFind(c, y, s2_matches, j + 1, end)
    ELSE j

\* the matching loop over i: returns <<s1_matches, s2_matches>>
RECURSIVE JaroMatch(_, _, _, _, _, _)
JaroMatch(x, y, md, i, s1_matches, s2_matches) ==
    IF i > Len(x) THEN <<s1_matches, s2_matches>>
    ELSE LET start == Max(0, (i - 1) - md)
             end   == Min((i - 1) + md + 1, Len(y))
             j     == JaroFind(x[i], y, s2_matches, start + 1, end)
         IN IF j = 0 THEN JaroMatch(x, y, md, i + 1, s1_matches, s2_matches)
            ELSE JaroMatch(x, y, md, i + 1,
                           [s1_matches EXCEPT ![i] = TRUE],
                           [s2_matches EXCEPT ![j] = TRUE])

\* while not s2_matches[k]: k += 1
RECURSIVE JaroSkip(_, _)
JaroSkip(s2_matches, k) == IF s2_matches[k] THEN k ELSE JaroSkip(s2_matches, k + 1)

\* the transposition loop over i with the running pointer k
RECURSIVE JaroTranspositions(_, _, _, _, _, _)
JaroTranspositions(x, y, s1_matches, s2_matches, i, k) ==
    IF i > Len(x) THEN 0
    ELSE IF ~s1_matches[i] THEN JaroTranspositions(x, y, s1_matches, s2_matches, i + 1, k)
    ELSE LET k2 == JaroSkip(s2_matches, k)
         IN (IF x[i] # y[k2] THEN 1 ELSE 0)
            + JaroTranspositions(x, y, s1_matches, s2_matches, i + 1, k2 + 1)

\* number of matched characters
JaroMatches(x, y) ==
    LET m == JaroMatch(x, y, MatchDistance(Len(x), Len(y)), 1,
                       [i \in 1..Len(x) |-> FALSE], [j \in 1..Len(y) |-> FALSE])
    IN Cardinality({i \in 1..Len(x) : m[1][i]})

\* number of transpositions counted by the second loop
JaroTrans(x, y) ==
    LET m == JaroMatch(x, y, MatchDistance(Len(x), Len(y)), 1,
                       [i \in 1..Len(x) |-> FALSE], [j \in 1..Len(y) |-> FALSE])
    IN JaroTranspositions(x, y, m[1], m[2], 1, 1)

\* length of the common prefix, capped at 4
RECURSIVE CommonPrefix(_, _, _)
CommonPrefix(x, y, i) ==
    IF i > Min(Len(x), Len(y)) THEN 0
    ELSE IF x[i] = y[i] THEN 1 + CommonPrefix(x, y, i + 1)
    ELSE 0

PrefixLen(x, y) == Min(4, CommonPrefix(x, y, 1))

jaro_winkler_similarity(x, y) ==
    IF x = y THEN ROne
    ELSE IF Len(x) = 0 \/ Len(y) = 0 THEN RZero
    ELSE LET matches == JaroMatches(x, y)
             transpositions == JaroTrans(x, y)
         IN IF matches = 0 THEN RZero
            ELSE LET jaro == RMul(RAdd(RAdd(Rat(matches, Len(x)), Rat(matches, Len(y))),
                                       Rat(2 * matches - transpositions, 2 * matches)),
                                  Rat(1, 3))
                 IN RAdd(jaro, RMul(Rat(PrefixLen(x, y), 10), RSub(ROne, jaro)))

(***************************************************************************)
(* trigram_similarity                                                      *)
(***************************************************************************)
\* get_trigrams without the {s} fallback for strings shorter than 3
get_trigrams_NoFallback(s) ==
    IF Len(s) >= 3 THEN {SubSeq(s, i, i + 2) : i \in 1..(Len(s) - 2)} ELSE {}

get_trigrams(s) ==
    IF Len(s) >= 3 THEN {SubSeq(s, i, i + 2) : i \in 1..(Len(s) - 2)} ELSE {s}

trigram_similarity(x, y) ==
    LET t1 == get_trigrams(x)
        t2 == get_trigrams(y)
        intersection == Cardinality(t1 \cap t2)
        union == Cardinality(t1 \cup t2)
    IN IF t1 = {} \/ t2 = {} THEN RZero
       ELSE IF union > 0 THEN Rat(intersection, union) ELSE RZero

(***************************************************************************)
(* the composite similarity of score_candidates                            *)
(***************************************************************************)
\* the Levenshtein similarity with the distance divided by the shorter length
LevSim_MinLen(x, y) ==
    LET min_len == Min(Len(x), Len(y))
    IN IF min_len > 0 THEN RSub(ROne, Rat(levenshtein_distance(x, y), min_len)) ELSE RZero

\* lev_sim = 1.0 - (lev_dist / max_len) if max_len > 0 else 0.0
LevSim(x, y) ==
    LET max_len == Max(Len(x), Len(y))
    IN IF max_len > 0 THEN RSub(ROne, Rat(levenshtein_distance(x, y), max_len)) ELSE RZero

\* similarity = (lev_sim * 0.4) + (jw_sim * 0.4) + (tri_sim * 0.2)
Similarity(x, y) ==
    RAdd(RAdd(RMul(LevSim(x, y), Rat(4, 10)),
              RMul(jaro_winkler_similarity(x, y), Rat(4, 10))),
         RMul(trigram_similarity(x, y), Rat(2, 10)))

(***************************************************************************)
(* score_candidates                                                        *)
(***************************************************************************)
HomoglyphChars == {"0", "1", "@", "3", "5"}

\* s.rsplit(".", 1)[-1]
LastLabel(s) == IF Contains(s, ".") THEN Drop(s, LastIndex(s, ".")) ELSE s

\* ReasonFor with the homoglyph test ahead of the edit-distance test
ReasonFor_HomoglyphFirst(new_domain, target) ==
    IF \E hg \in HomoglyphChars : Contains(new_domain, hg) THEN "homoglyph"
    ELSE IF levenshtein_distance(new_domain, target) <= 2 THEN "char_swap"
    ELSE IF LastLabel(new_domain) # LastLabel(target) THEN "tld_swap"
    ELSE "similarity"

\* the reason chosen when target becomes the best match
ReasonFor(new_domain, target) ==
    IF levenshtein_distance(new_domain, target) <= 2 THEN "char_swap"
    ELSE IF \E hg \in HomoglyphChars : Contains(new_domain, hg) THEN "homoglyph"
    ELSE IF LastLabel(new_domain) # LastLabel(target) THEN "tld_swap"
    ELSE "similarity"

\* MatchedFrom deciding by membership in the variants first
MatchedFrom_VariantFirst(target, approved) ==
    IF target \in Range(variants) THEN "variant" ELSE "approved"

\* "approved" if target in clean_approved else "variant"
MatchedFrom(target, approved) ==
    IF target \in Range(approved) THEN "approved" ELSE "variant"

\* Improves with >= in place of >
Improves_OrEqual(similarity, best_similarity) == RLeq(best_similarity, similarity)

\* if similarity > best_similarity
Improves(similarity, best_similarity) == RLess(best_similarity, similarity)

\* BestInit with best_similarity starting at 1.0
BestInit_FromOne ==
    [best_match |-> <<>>, best_similarity |-> ROne, best_reason |-> "", matched_from |-> ""]

\* best_match = None, best_similarity = 0.0, best_reason = "", matched_from = "";
\* best_match is <<>> for None and <<target>> otherwise
BestInit ==
    [best_match |-> <<>>, best_similarity |-> RZero, best_reason |-> "", matched_from |-> ""]

\* BestLoop setting best_reason only while it is still "": the reason of the
\* first improvement stays
RECURSIVE BestLoop_StaleReason(_, _, _, _, _)
BestLoop_StaleReason(new_domain, all_targets, approved, k, best) ==
    IF k > Len(all_targets) THEN best
    ELSE LET target == all_targets[k]
             similarity == Similarity(new_domain, target)
         IN IF Improves(similarity, best.best_similarity)
            THEN BestLoop_StaleReason(new_domain, all_targets, approved, k + 1,
                          [best_match |-> <<target>>,
                           best_similarity |-> similarity,
                           best_reason |-> IF best.best_reason = ""
                                           THEN ReasonFor(new_domain, target)
                                           ELSE best.best_reason,
                           matched_from |-> MatchedFrom(target, approved)])
            ELSE BestLoop_StaleReason(new_domain, all_targets, approved, k + 1, best)

\* the loop over all_targets for one new_domain, from target number k on
RECURSIVE BestLoop(_, _, _, _, _)
BestLoop(new_domain, all_targets, approved, k, best) ==
    IF k > Len(all_targets) THEN best
    ELSE LET target == all_targets[k]
             similarity == Similarity(new_domain, target)
         IN IF Improves(similarity, best.best_similarity)
            THEN BestLoop(new_domain, all_targets, approved, k + 1,
                          [best_match |-> <<target>>,
                           best_similarity |-> similarity,
                           best_reason |-> ReasonFor(new_domain, target),
                           matched_from |-> MatchedFrom(target, approved)])
            ELSE BestLoop(new_domain, all_targets, approved, k + 1, best)

\* Flagged without the edit-distance alternative
Flagged_ThresholdOnly(new_domain, best, thr) ==
    /\ best.best_match # <<>>
    /\ Len(best.best_match[1]) > 0
    /\ RLeq(thr, best.best_similarity)

\* Flagged with the threshold comparison turned round
Flagged_BelowThreshold(new_domain, best, thr) ==
    /\ best.best_match # <<>>
    /\ Len(best.best_match[1]) > 0
    /\ \/ RLeq(best.best_similarity, thr)
       \/ levenshtein_distance(new_domain, best.best_match[1]) <= 2

\* if best_match and (best_similarity >= threshold or levenshtein_distance(...) <= 2)
Flagged(new_domain, best, thr) ==
    /\ best.best_match # <<>>
    /\ Len(best.best_match[1]) > 0
    /\ \/ RLeq(thr, best.best_similarity)
       \/ levenshtein_distance(new_domain, best.best_match[1]) <= 2

\* ScoreLoop with the best_* variables set once, before the loop over
\* clean_new: a candidate starts from the best match of the one before it
RECURSIVE ScoreLoopFrom(_, _, _, _, _)
ScoreLoopFrom(new, all_targets, approved, thr, start) ==
    IF Len(new) = 0 THEN <<>>
    ELSE LET new_domain == new[1]
             best == BestLoop(new_domain, all_targets, approved, 1, start)
         IN (IF Flagged(new_domain, best, thr)
             THEN << [domain |-> new_domain,
                      looks_like |-> best.best_match[1],
                      similarity |-> Round3(best.best_similarity),
                      reason |-> best.best_reason,
                      matched_from |-> best.matched_from] >>
             ELSE <<>>)
            \o ScoreLoopFrom(Tail(new), all_targets, approved, thr, best)

ScoreLoop_CarryBest(new, all_targets, approved, thr) ==
    ScoreLoopFrom(new, all_targets, approved, thr, BestInit)

\* ScoreLoop with the append inside the loop over all_targets: one record
\* per target tried, for the best match so far
RECURSIVE ScoreLoop_PerTarget(_, _, _, _)
ScoreLoop_PerTarget(new, all_targets, approved, thr) ==
    IF Len(new) = 0 THEN <<>>
    ELSE LET new_domain == new[1]
             BestUpTo(k) == BestLoop(new_domain, SubSeq(all_targets, 1, k), approved, 1, BestInit)
             Emitted(k) == Flagged(new_domain, BestUpTo(k), thr)
             tried == SelectSeq([k \in 1..Len(all_targets) |-> k], Emitted)
         IN [n \in 1..Len(tried) |->
                [domain |-> new_domain,
                 looks_like |-> BestUpTo(tried[n]).best_match[1],
                 similarity |-> Round3(BestUpTo(tried[n]).best_similarity),
                 reason |-> BestUpTo(tried[n]).best_reason,
                 matched_from |-> BestUpTo(tried[n]).matched_from]]
            \o ScoreLoop_PerTarget(Tail(new), all_targets, approved, thr)

\* the loop over clean_new: the records appended to candidates
RECURSIVE ScoreLoop(_, _, _, _)
ScoreLoop(new, all_targets, approved, thr) ==
    IF Len(new) = 0 THEN <<>>
    ELSE LET new_domain == new[1]
             best == BestLoop(new_domain, all_targets, approved, 1, BestInit)
         IN (IF Flagged(new_domain, best, thr)
             THEN << [domain |-> new_domain,
                      looks_like |-> best.best_match[1],
                      similarity |-> Round3(best.best_similarity),
                      reason |-> best.best_reason,
                      matched_from |-> best.matched_from] >>
             ELSE <<>>)
            \o ScoreLoop(Tail(new), all_targets, approved, thr)

\* InsertDesc placing rec ahead of the records of equal similarity
RECURSIVE InsertDesc_Unstable(_, _)
InsertDesc_Unstable(sorted, rec) ==
    IF Len(sorted) = 0 THEN <<rec>>
    ELSE IF sorted[1].similarity > rec.similarity
         THEN <<sorted[1]>> \o InsertDesc_Unstable(Tail(sorted), rec)
         ELSE <<rec>> \o sorted

\* one insertion of list.sort(key=similarity, reverse=True): rec goes after
\* every record whose similarity is at least its own
RECURSIVE InsertDesc(_, _)
InsertDesc(sorted, rec) ==
    IF Len(sorted) = 0 THEN <<rec>>
    ELSE IF sorted[1].similarity >= rec.similarity
         THEN <<sorted[1]>> \o InsertDesc(Tail(sorted), rec)
         ELSE <<rec>> \o sorted

\* candidates.sort(key=lambda x: x["similarity"], reverse=True)
RECURSIVE SortDesc(_)
SortDesc(recs) ==
    IF Len(recs) = 0 THEN <<>>
    ELSE InsertDesc(SortDesc(SubSeq(recs, 1, Len(recs) - 1)), recs[Len(recs)])

score_candidates(new, approved, vs, thr) ==
    SortDesc(ScoreLoop(new, approved \o vs, approved, thr))

(***************************************************************************)
(* Inputs                                                                  *)
(***************************************************************************)
\* duplicate-free sequences of at most n elements of P
SeqsUpTo(P, n) ==
    UNION {{q \in [1..k -> P] : \A i, j \in 1..k : i # j => q[i] # q[j]} : k \in 0..n}

contoso_com == <<"c", "o", "n", "t", "o", "s", "o", ".", "c", "o", "m">>

c0ntoso_com == <<"c", "0", "n", "t", "o", "s", "o", ".", "c", "o", "m">>

contoso_net == <<"c", "o", "n", "t", "o", "s", "o", ".", "n", "e", "t">>

unrelated_org == <<"u", "n", "r", "e", "l", "a", "t", "e", "d", ".", "o", "r", "g">>

example_com == <<"e", "x", "a", "m", "p", "l", "e", ".", "c", "o", "m">>

examp1e_com == <<"e", "x", "a", "m", "p", "1", "e", ".", "c", "o", "m">>

m_www_example_com == <<"m", ".", "w", "w", "w", ".", "e", "x", "a", "m", "p", "l", "e", ".", "c", "o", "m">>

www_www_example_com == <<"w", "w", "w", ".", "w", "w", "w", ".", "e", "x", "a", "m", "p", "l", "e", ".", "c", "o", "m">>

example_com_space_dot == <<"e", "x", "a", "m", "p", "l", "e", ".", "c", "o", "m", " ", ".">>

WWW_Example_COM_dot == <<"W", "W", "W", ".", "E", "x", "a", "m", "p", "l", "e", ".", "C", "O", "M", ".">>

\* rows of the approved-domains table: at most MaxApproved of them
MaxApproved == 1

\* rows of the newly-registered-domains table: at most MaxNew of them
MaxNew == 1

RawApprovedPool == {contoso_com, example_com, <<"a", "b">>}

RawNewPool == {c0ntoso_com, examp1e_com, unrelated_org, m_www_example_com}

\* the new-domain list of the end-to-end scenario
ScenarioNew == <<c0ntoso_com, contoso_net, unrelated_org>>

ApprovedInputs == SeqsUpTo(RawApprovedPool, MaxApproved) \cup {<<WWW_Example_COM_dot>>}

NewInputs == SeqsUpTo(RawNewPool, MaxNew) \cup {ScenarioNew, <<www_www_example_com>>}

\* --similarity-threshold, default 0.85
DefaultThreshold == Rat(85, 100)

\* argparse type=float accepts any number: -0.5 and 1.5 lie outside [0, 1]
BelowRangeThreshold == Rat(-1, 2)

AboveRangeThreshold == Rat(3, 2)

Thresholds == {BelowRangeThreshold, RZero, DefaultThreshold, ROne, AboveRangeThreshold}

NoRc == -1

NoMetrics == [fwd |-> <<>>, bwd |-> <<>>]

\* no run has been created: the polling loop has no state yet
NoPolling == run_status = "None" /\ poll_count = 0 /\ poll_outcome = "none"

(***************************************************************************)
(* main, dry-run path                                                      *)
(***************************************************************************)
Init ==
    /\ pc = "load"
    /\ rc = NoRc
    /\ approved_domains \in ApprovedInputs
    /\ new_domains \in NewInputs
    /\ threshold \in Thresholds
    /\ clean_approved = <<>>
    /\ clean_new = <<>>
    /\ variants = <<>>
    /\ candidates = <<>>
    /\ s1 = <<>>
    /\ s2 = <<>>
    /\ metrics = NoMetrics
    /\ NoPolling

\* if not approved_domains: return 1 / if not new_domains: return 1
CheckInputs ==
    /\ pc = "load"
    /\ IF approved_domains = <<>> \/ new_domains = <<>>
       THEN pc' = "done" /\ rc' = 1
       ELSE pc' = "canonicalize" /\ rc' = rc
    /\ UNCHANGED <<approved_domains, new_domains, threshold, clean_approved, clean_new,
                   variants, candidates, s1, s2, metrics>>
    /\ UNCHANGED pollVars

Canonicalize ==
    /\ pc = "canonicalize"
    /\ clean_approved' = canonicalize(approved_domains)
    /\ clean_new' = canonicalize(new_domains)
    /\ pc' = "variants"
    /\ UNCHANGED <<rc, approved_domains, new_domains, threshold, variants, candidates,
                   s1, s2, metrics>>
    /\ UNCHANGED pollVars

GenerateVariants ==
    /\ pc = "variants"
    /\ variants' = generate_variants(clean_approved)
    /\ pc' = "score"
    /\ UNCHANGED <<rc, approved_domains, new_domains, threshold, clean_approved, clean_new,
                   candidates, s1, s2, metrics>>
    /\ UNCHANGED pollVars

ScoreCandidates ==
    /\ pc = "score"
    /\ candidates' = score_candidates(clean_new, clean_approved, variants, threshold)
    /\ pc' = "report"
    /\ UNCHANGED <<rc, approved_domains, new_domains, threshold, clean_approved, clean_new,
                   variants, s1, s2, metrics>>
    /\ UNCHANGED pollVars

\* print_summary, save_candidates, return 0
Report ==
    /\ pc = "report"
    /\ pc' = "done"
    /\ rc' = 0
    /\ UNCHANGED <<approved_domains, new_domains, threshold, clean_approved, clean_new,
                   variants, candidates, s1, s2, metrics>>
    /\ UNCHANGED pollVars

Next == CheckInputs \/ Canonicalize \/ GenerateVariants \/ ScoreCandidates \/ Report

Spec == Init /\ [][Next]_vars

(***************************************************************************)
(* canonicalize called on arbitrary short lists of raw strings             *)
(***************************************************************************)
\* entries of the raw candidate list
MaxRaw == 3

www_m_example_com == <<"w", "w", "w", ".", "m", ".", "e", "x", "a", "m", "p", "l", "e", ".", "c", "o", "m">>

\* a name of n characters: a run of "a" with a three-letter last label
LongName(n) == [i \in 1..n |-> IF i = n - 3 THEN "." ELSE "a"]

\* the longest name the validation keeps, and the shortest it drops for size
MaxSizeName == LongName(MaxDomainLen)

OversizedName == LongName(MaxDomainLen + 1)

\* "cafe.c" with the accent as a combining mark, and its NFC form
cafe_c_decomposed == <<"c", "a", "f", "e", "comb_acute", ".", "c">>

cafe_c == <<"c", "a", "f", "e_acute", ".", "c">>

\* raw strings: well-formed ones (some with the same normal form), one with
\* no ".", one that is empty once trimmed, one too long, one with two
\* prefixes, one in decomposed Unicode form
RawStrings ==
    { example_com, WWW_Example_COM_dot, www_m_example_com, cafe_c_decomposed,
      <<"a", "b">>, <<" ", ".", " ">>, MaxSizeName, OversizedName }

RawLists == UNION {[1..k -> RawStrings] : k \in 0..MaxRaw}

InitCanon ==
    /\ pc = "canonicalize"
    /\ rc = NoRc
    /\ approved_domains = <<contoso_com>>
    /\ new_domains \in RawLists
    /\ threshold = DefaultThreshold
    /\ clean_approved = <<>>
    /\ clean_new = <<>>
    /\ variants = <<>>
    /\ candidates = <<>>
    /\ s1 = <<>>
    /\ s2 = <<>>
    /\ metrics = NoMetrics
    /\ NoPolling

NextCanon == Canonicalize

SpecCanon == InitCanon /\ [][NextCanon]_vars

(***************************************************************************)
(* generate_variants called on arbitrary short approved lists              *)
(***************************************************************************)
\* approved domains per call
MaxGiven == 2

a_co == <<"a", ".", "c", "o">>

a_net == <<"a", ".", "n", "e", "t">>

at_co == <<"@", ".", "c", "o">>

\* approved domains: two that share a base, one that is a homoglyph variant
\* of another, one with two of the mapped letters, one without a ".", one
\* with two dots, one with a mapped letter twice, one with no mapped letter
ShortApproved ==
    { a_co, a_net, at_co, <<"s", "o", ".", "c", "o", "m">>, <<"l", "o", "l">>,
      <<"a", ".", "b", ".", "o", "r", "g">>, <<"e", "e", "s", ".", "c", "m">>,
      <<"x", ".", "y">> }

InitVariants ==
    /\ pc = "variants"
    /\ rc = NoRc
    /\ approved_domains = <<>>
    /\ new_domains = <<>>
    /\ threshold = DefaultThreshold
    /\ clean_approved \in SeqsUpTo(ShortApproved, MaxGiven)
    /\ clean_new = <<>>
    /\ variants = <<>>
    /\ candidates = <<>>
    /\ s1 = <<>>
    /\ s2 = <<>>
    /\ metrics = NoMetrics
    /\ NoPolling

NextVariants == GenerateVariants

SpecVariants == InitVariants /\ [][NextVariants]_vars

(***************************************************************************)
(* score_candidates called on arbitrary short arguments                    *)
(***************************************************************************)
\* candidates per call
MaxCand == 2

\* approved targets per call
MaxTargets == 1

\* variant targets per call
MaxVariantTargets == 1

\* the strings score_candidates is handed as candidates
ShortCandidates ==
    { <<"a", ".", "b">>, <<"a", ".", "c">>, <<".", "x", "y">>,
      <<"a", "1", ".", "b", "1">>, <<"a", "b", "a", "b", ".", "c">> }

\* the strings score_candidates is handed as approved targets
ShortTargets == { <<"a", ".", "b">>, <<"a", ".", "c">>, <<".", "x", "y">> }

\* the strings score_candidates is handed as variants
ShortVariants == { <<"a", ".", "b">>, <<".", "x", "y">> }

\* the thresholds score_candidates is called with: 0, the default, and 1.5
MatchThresholds == {RZero, DefaultThreshold, AboveRangeThreshold}

go_co == <<"g", "o", ".", "c", "o">>

ab_com == <<"a", "b", ".", "c", "o", "m">>

ab_co == <<"a", "b", ".", "c", "o">>

\* the arguments (clean_new, clean_approved, variants) of a call: all short
\* ones, and the call main makes for approved ab.com and candidate go.co
MatchArguments ==
    (SeqsUpTo(ShortCandidates, MaxCand) \X SeqsUpTo(ShortTargets, MaxTargets)
        \X SeqsUpTo(ShortVariants, MaxVariantTargets))
    \cup { << <<go_co>>, <<ab_com>>, generate_variants(<<ab_com>>) >> }

InitMatch ==
    /\ pc = "score"
    /\ rc = NoRc
    /\ approved_domains = <<>>
    /\ new_domains = <<>>
    /\ threshold \in MatchThresholds
    /\ \E args \in MatchArguments :
          /\ clean_new = args[1]
          /\ clean_approved = args[2]
          /\ variants = args[3]
    /\ candidates = <<>>
    /\ s1 = <<>>
    /\ s2 = <<>>
    /\ metrics = NoMetrics
    /\ NoPolling

NextMatch == ScoreCandidates

SpecMatch == InitMatch /\ [][NextMatch]_vars

(***************************************************************************)
(* the similarity metrics on all pairs of short strings                    *)
(***************************************************************************)
\* length of the compared strings
MaxLen == 4

ScoreAlphabet == {"a", "b", "."}

Strings == UNION {[1..k -> ScoreAlphabet] : k \in 0..MaxLen}

\* what score_candidates computes for one (new_domain, target) pair
Metrics(x, y) ==
    [lev_dist |-> levenshtein_distance(x, y),
     lev_sim |-> LevSim(x, y),
     matches |-> JaroMatches(x, y),
     transpositions |-> JaroTrans(x, y),
     jw_sim |-> jaro_winkler_similarity(x, y),
     tri_sim |-> trigram_similarity(x, y),
     similarity |-> Similarity(x, y)]

InitScore ==
    /\ pc = "pair"
    /\ rc = NoRc
    /\ approved_domains = <<>>
    /\ new_domains = <<>>
    /\ threshold = DefaultThreshold
    /\ clean_approved = <<>>
    /\ clean_new = <<>>
    /\ variants = <<>>
    /\ candidates = <<>>
    /\ s1 \in Strings
    /\ s2 \in Strings
    /\ metrics = NoMetrics
    /\ NoPolling

ComputeMetrics ==
    /\ pc = "pair"
    /\ metrics' = [fwd |-> Metrics(s1, s2), bwd |-> Metrics(s2, s1)]
    /\ pc' = "measured"
    /\ UNCHANGED <<rc, approved_domains, new_domains, threshold, clean_approved, clean_new,
                   variants, candidates, s1, s2>>
    /\ UNCHANGED pollVars

NextScore == ComputeMetrics

SpecScore == InitScore /\ [][NextScore]_vars

(***************************************************************************)
(* The status polling loop of run_agent_workflow.  The service is the     *)
(* environment: each runs.get call either returns a run with any status   *)
(* or raises.                                                              *)
(***************************************************************************)

\* the polling limit: max_polls = 120
max_polls == 120

\* the number of polls after which a polling exception ends the loop
PollErrorLimit == 30

\* the statuses the while condition keeps polling on
ActiveStatuses == {"queued", "in_progress", "requires_action"}

\* the statuses a run can report; "None" is getattr's default
RunStatuses == ActiveStatuses \cup {"completed", "failed", "cancelled", "None"}

\* the while condition
KeepPolling == run_status \in ActiveStatuses /\ poll_count < max_polls

\* after runs.create: run_status = getattr(run, "status", None), poll_count = 0
InitPoll ==
    /\ pc = "poll"
    /\ rc = NoRc
    /\ approved_domains = <<contoso_com>>
    /\ new_domains = <<c0ntoso_com>>
    /\ threshold = DefaultThreshold
    /\ clean_approved = <<>>
    /\ clean_new = <<>>
    /\ variants = <<>>
    /\ candidates = <<>>
    /\ s1 = <<>>
    /\ s2 = <<>>
    /\ metrics = NoMetrics
    /\ run_status \in RunStatuses
    /\ poll_count = 0
    /\ poll_outcome = "none"

\* one iteration whose runs.get returns: the count goes up, the status is read
PollReturns ==
    /\ pc = "poll"
    /\ KeepPolling
    /\ poll_count' = poll_count + 1
    /\ run_status' \in RunStatuses
    /\ poll_outcome' = "status"
    /\ pc' = "poll"
    /\ UNCHANGED <<rc, approved_domains, new_domains, threshold, clean_approved, clean_new,
                   variants, candidates, s1, s2, metrics>>

\* a variant of the raising iteration that leaves the count alone
PollRaises_NotCounted ==
    /\ pc = "poll"
    /\ KeepPolling
    /\ poll_count' = poll_count
    /\ run_status' = run_status
    /\ poll_outcome' = "exception"
    /\ pc' = IF poll_count' > PollErrorLimit THEN "polled" ELSE "poll"
    /\ UNCHANGED <<rc, approved_domains, new_domains, threshold, clean_approved, clean_new,
                   variants, candidates, s1, s2, metrics>>

\* one iteration whose runs.get raises: the count has gone up before the
\* try, the status keeps its value, and past PollErrorLimit the loop breaks
PollRaises ==
    /\ pc = "poll"
    /\ KeepPolling
    /\ poll_count' = poll_count + 1
    /\ run_status' = run_status
    /\ poll_outcome' = "exception"
    /\ pc' = IF poll_count' > PollErrorLimit THEN "polled" ELSE "poll"
    /\ UNCHANGED <<rc, approved_domains, new_domains, threshold, clean_approved, clean_new,
                   variants, candidates, s1, s2, metrics>>

\* the while condition is false: the loop is left
PollExit ==
    /\ pc = "poll"
    /\ ~KeepPolling
    /\ pc' = "polled"
    /\ UNCHANGED <<rc, approved_domains, new_domains, threshold, clean_approved, clean_new,
                   variants, candidates, s1, s2, metrics>>
    /\ UNCHANGED pollVars

NextPoll == PollReturns \/ PollRaises \/ PollExit

SpecPoll == InitPoll /\ [][NextPoll]_vars

\* the loop is sequential code: sleep returns, runs.get returns or raises,
\* so an iteration or the exit that can be taken is taken
SpecPollFair == SpecPoll /\ WF_vars(NextPoll)

(***************************************************************************)
(* Properties                                                              *)
(***************************************************************************)
Canonicalized == pc \in {"variants", "score", "report"} \/ (pc = "done" /\ rc = 0)

Scored == pc = "report" \/ (pc = "done" /\ rc = 0)

\* the records of the output
Records == Range(candidates)

\* the flat target pool of score_candidates
AllTargets == clean_approved \o variants

\* C1: canonicalize is idempotent: canonicalizing the lists canonicalize
\* returned gives the same lists back, entry for entry
C1_CanonicalizeIdempotent ==
    Canonicalized =>
        /\ canonicalize(clean_approved) = clean_approved
        /\ canonicalize(clean_new) = clean_new

\* C2: Levenshtein distance and similarity, the Jaro match and transposition
\* counts, Jaro-Winkler, the trigram similarity and the weighted score are the
\* same for (s1, s2) and (s2, s1)
C2_ScoreSymmetric ==
    pc = "measured" => metrics.fwd = metrics.bwd

C2_Witness ==
    /\ pc = "measured"
    /\ Len(s1) # Len(s2)
    /\ metrics.fwd.matches >= 2
    /\ metrics.fwd.transpositions > 0
    /\ metrics.fwd.tri_sim # RZero

\* the place of x in the duplicate-free list xs (0 when absent)
PosIn(xs, x) == IF x \in Range(xs) THEN CHOOSE i \in 1..Len(xs) : xs[i] = x ELSE 0

\* some target of maximal score for candidate c, the first such in AllTargets
BestIndex(c) ==
    CHOOSE k \in 1..Len(AllTargets) :
        \A j \in 1..Len(AllTargets) :
            /\ RLeq(Similarity(c, AllTargets[j]), Similarity(c, AllTargets[k]))
            /\ j < k => RLess(Similarity(c, AllTargets[j]), Similarity(c, AllTargets[k]))

\* C3: with a non-empty target pool, a candidate has a record exactly when its
\* best similarity reaches the threshold or its best target is within edit
\* distance 2
C3_InclusionRule ==
    (pc = "report" /\ AllTargets # <<>>) =>
        \A i \in 1..Len(clean_new) :
            LET c == clean_new[i]
                best_target == AllTargets[BestIndex(c)]
            IN (\E r \in Records : r.domain = c)
               <=> \/ RLeq(threshold, Similarity(c, best_target))
                   \/ levenshtein_distance(c, best_target) <= 2

\* C4: the reason of a record follows the precedence char_swap, homoglyph,
\* tld_swap, similarity, evaluated against the record's own looks_like
C4_ReasonPrecedence ==
    pc = "report" =>
        \A r \in Records :
            LET close == levenshtein_distance(r.domain, r.looks_like) <= 2
                glyph == \E i \in 1..Len(r.domain) : r.domain[i] \in {"0", "1", "@", "3", "5"}
                tld   == LastLabel(r.domain) # LastLabel(r.looks_like)
            IN /\ close => r.reason = "char_swap"
               /\ (~close /\ glyph) => r.reason = "homoglyph"
               /\ (~close /\ ~glyph /\ tld) => r.reason = "tld_swap"
               /\ (~close /\ ~glyph /\ ~tld) => r.reason = "similarity"

C4_Witness ==
    /\ pc = "report"
    /\ \E r \in Records : r.reason = "homoglyph"
    /\ \E r \in Records : r.reason \in {"tld_swap", "similarity"}

\* C5: the looks_like of a record has maximal score over approved followed by
\* variants, and no equally scored target comes before its first occurrence
C5_BestTargetFirst ==
    pc = "report" =>
        \A r \in Records :
            LET best == Similarity(r.domain, r.looks_like)
            IN \A k \in 1..Len(AllTargets) :
                   LET sim == Similarity(r.domain, AllTargets[k])
                   IN /\ RLeq(sim, best)
                      /\ sim = best => \E j \in 1..k : AllTargets[j] = r.looks_like

C5_Witness ==
    /\ pc = "report"
    /\ \E r \in Records :
           \E k \in 1..Len(AllTargets) :
               /\ AllTargets[k] # r.looks_like
               /\ Similarity(r.domain, AllTargets[k]) = Similarity(r.domain, r.looks_like)

\* C6: matched_from is "approved" exactly when looks_like is in the approved
\* list, and "variant" otherwise
C6_MatchedFrom ==
    pc = "report" =>
        \A r \in Records :
            /\ r.matched_from \in {"approved", "variant"}
            /\ r.matched_from = "approved" <=> r.looks_like \in Range(clean_approved)

C6_Witness ==
    /\ pc = "report"
    /\ \E r \in Records :
           /\ r.looks_like \in Range(clean_approved)
           /\ r.looks_like \in Range(variants)
           /\ r.matched_from = "approved"

\* C7: the output is in non-increasing order of similarity, and records of
\* equal similarity keep the order of their candidates in clean_new
C7_SortedStable ==
    pc = "report" =>
        \A i, j \in 1..Len(candidates) :
            i < j =>
                /\ candidates[i].similarity >= candidates[j].similarity
                /\ candidates[i].similarity = candidates[j].similarity
                       => PosIn(clean_new, candidates[i].domain) < PosIn(clean_new, candidates[j].domain)

C7_Witness ==
    /\ pc = "report"
    /\ Len(candidates) = 2
    /\ candidates[1].similarity = candidates[2].similarity
    /\ candidates[1].domain # candidates[2].domain
    /\ candidates[1].looks_like = candidates[2].looks_like

zero_xample_com == <<"0", "x", "a", "m", "p", "l", "e", ".", "c", "o", "m">>

three_xample_com == <<"3", "x", "a", "m", "p", "l", "e", ".", "c", "o", "m">>

theexample_com == <<"t", "h", "e", "e", "x", "a", "m", "p", "l", "e", ".", "c", "o", "m">>

example_secure_com == <<"e", "x", "a", "m", "p", "l", "e", "-", "s", "e", "c", "u", "r", "e", ".", "c", "o", "m">>

example_net == <<"e", "x", "a", "m", "p", "l", "e", ".", "n", "e", "t">>

SortedDescending ==
    \A i, j \in 1..Len(candidates) :
        i < j => candidates[i].similarity >= candidates[j].similarity

\* the end-to-end scenario has run to the end of score_candidates
ContosoScenarioDone ==
    /\ Scored
    /\ approved_domains = <<contoso_com>>
    /\ new_domains = ScenarioNew
    /\ threshold = DefaultThreshold

\* C8 as stated: in the contoso scenario c0ntoso.com is reported as homoglyph
\* or char_swap, contoso.net as tld_swap matched from approved, unrelated.org
\* is not reported, and the output is sorted by descending similarity
C8_ScenarioAsStated ==
    ContosoScenarioDone =>
        /\ \E r \in Records : r.domain = c0ntoso_com /\ r.reason \in {"homoglyph", "char_swap"}
        /\ \E r \in Records :
               r.domain = contoso_net /\ r.reason = "tld_swap" /\ r.matched_from = "approved"
        /\ \A r \in Records : r.domain # unrelated_org
        /\ SortedDescending

\* C8 amended: as stated, except that contoso.net is matched to the generated
\* TLD-swap variant contoso.net itself, with reason char_swap and matched_from
\* variant
C8_ScenarioAmended ==
    ContosoScenarioDone =>
        /\ \E r \in Records : r.domain = c0ntoso_com /\ r.reason \in {"homoglyph", "char_swap"}
        /\ \E r \in Records :
               /\ r.domain = contoso_net
               /\ r.looks_like = contoso_net
               /\ r.reason = "char_swap"
               /\ r.matched_from = "variant"
        /\ \A r \in Records : r.domain # unrelated_org
        /\ SortedDescending

C8_Witness == ContosoScenarioDone /\ Len(candidates) = 2

\* examp1e.com has been scored against example.com and its variants
ExampleScenarioDone ==
    /\ Scored
    /\ approved_domains = <<example_com>>
    /\ new_domains = <<examp1e_com>>

\* C9 as stated: for every threshold examp1e.com is reported with reason
\* char_swap and matched_from approved
C9_ScenarioAsStated ==
    ExampleScenarioDone =>
        \E r \in Records :
            r.domain = examp1e_com /\ r.reason = "char_swap" /\ r.matched_from = "approved"

\* C9 amended: for every threshold examp1e.com is reported with reason
\* char_swap, matched to the generated variant examp1e.com with matched_from
\* variant
C9_ScenarioAmended ==
    ExampleScenarioDone =>
        \E r \in Records :
            /\ r.domain = examp1e_com
            /\ r.looks_like = examp1e_com
            /\ r.reason = "char_swap"
            /\ r.matched_from = "variant"

C9_Witness == ExampleScenarioDone /\ threshold = ROne /\ Len(candidates) = 1

\* the variants of ['example.com'] have been generated
ExampleVariantsDone ==
    /\ pc \in {"score", "report"} \/ (pc = "done" /\ rc = 0)
    /\ clean_approved = <<example_com>>

\* C10 as stated: the variants of example.com contain 0xample.com,
\* theexample.com, example-secure.com and example.net
C10_VariantsAsStated ==
    ExampleVariantsDone =>
        {zero_xample_com, theexample_com, example_secure_com, example_net} \subseteq Range(variants)

\* C10 amended: the variants of example.com contain 3xample.com (e to 3),
\* theexample.com, example-secure.com and example.net, and not 0xample.com
C10_VariantsAmended ==
    ExampleVariantsDone =>
        /\ {three_xample_com, theexample_com, example_secure_com, example_net}
               \subseteq Range(variants)
        /\ zero_xample_com \notin Range(variants)

C10_Witness == ExampleVariantsDone /\ pc = "score" /\ approved_domains = <<example_com>>

\* C11: when canonicalization leaves the approved list or the candidate list
\* empty, the run ends as a precondition failure (exit code other than 0)
\* before any scoring: the scoring step is never entered and exit code 0 is
\* never returned with an empty canonical list
C11_EmptyAfterCanonicalization ==
    (clean_approved = <<>> \/ clean_new = <<>>) =>
        /\ pc \notin {"score", "report"}
        /\ ~(pc = "done" /\ rc = 0)

\* C12: a threshold below 0 or above 1 is rejected before scoring: the
\* scoring step is never completed and no record is ever produced with it
ValidThreshold == RLeq(RZero, threshold) /\ RLeq(threshold, ROne)

C12_InvalidThresholdRejected ==
    ~ValidThreshold =>
        /\ pc # "report"
        /\ ~(pc = "done" /\ rc = 0)
        /\ candidates = <<>>

\* the raw string lowercased, trimmed, NFC-normalized and without trailing dots
PreNormalize(domain) == RStripSet(NFC(Strip(Lower(domain))), {"."})

\* the raw entries whose normalized form is non-empty, at most 253 characters
\* long and has a "."
WellFormed(domain) ==
    LET d == CanonOne(domain)
    IN d # <<>> /\ Len(d) <= 253 /\ (\E i \in 1..Len(d) : d[i] = ".")

\* C13: every returned entry is non-empty, at most 253 characters long and
\* has a "."; the returned entries are exactly the normalized forms of the
\* well-formed raw entries; the result is what canonicalize returns for the
\* list without its malformed entries (same entries, same order)
C13_MalformedDropped ==
    pc = "variants" =>
        /\ \A i \in 1..Len(clean_new) :
              /\ clean_new[i] # <<>>
              /\ Len(clean_new[i]) <= 253
              /\ \E k \in 1..Len(clean_new[i]) : clean_new[i][k] = "."
        /\ Range(clean_new) =
              {CanonOne(new_domains[k]) : k \in {j \in 1..Len(new_domains) : WellFormed(new_domains[j])}}
        /\ clean_new = canonicalize(SelectSeq(new_domains, WellFormed))

\* a malformed entry of each kind around well-formed ones
C13_Witness ==
    /\ pc = "variants"
    /\ Len(new_domains) = 3
    /\ new_domains[2] \in {OversizedName, <<"a", "b">>, <<" ", ".", " ">>}
    /\ new_domains[3] = MaxSizeName
    /\ clean_new = <<cafe_c, MaxSizeName>>

\* position of the first raw entry whose normalized form is d
FirstRaw(raw, d) == CHOOSE k \in 1..Len(raw) :
    /\ CanonOne(raw[k]) = d
    /\ \A j \in 1..(k - 1) : CanonOne(raw[j]) # d

\* C14: the returned list has no duplicates and its entries are in the order
\* in which their normalized forms first occur in the input
C14_UniqueFirstSeen ==
    pc = "variants" =>
        /\ \A i, j \in 1..Len(clean_new) : i # j => clean_new[i] # clean_new[j]
        /\ \A i \in 1..Len(clean_new) :
              \E k \in 1..Len(new_domains) : CanonOne(new_domains[k]) = clean_new[i]
        /\ \A i, j \in 1..Len(clean_new) :
              i < j => FirstRaw(new_domains, clean_new[i]) < FirstRaw(new_domains, clean_new[j])

\* two raw strings with one normal form, another entry between them
C14_Witness ==
    /\ pc = "variants"
    /\ new_domains = <<WWW_Example_COM_dot, cafe_c_decomposed, example_com>>
    /\ clean_new = <<example_com, cafe_c>>

\* the first of the prefixes that d starts with is removed, nothing more
StripOnePrefix(d) ==
    IF \E k \in 1..Len(CanonPrefixes) : StartsWith(d, CanonPrefixes[k])
    THEN LET k == CHOOSE n \in 1..Len(CanonPrefixes) :
                     /\ StartsWith(d, CanonPrefixes[n])
                     /\ \A j \in 1..(n - 1) : ~StartsWith(d, CanonPrefixes[j])
         IN Drop(d, Len(CanonPrefixes[k]))
    ELSE d

\* C15: at most one leading prefix is removed from each raw string: what
\* canonicalize makes of it is its lowercased, trimmed form without the
\* trailing dot and without one matching prefix
C15_AtMostOnePrefix ==
    pc = "variants" =>
        \A k \in 1..Len(new_domains) :
            CanonOne(new_domains[k]) = StripOnePrefix(PreNormalize(new_domains[k]))

\* C16: canonicalize(["WWW.Example.COM."]) is the one-element list
\* ["example.com"]
C16_ExampleCanonical ==
    (pc = "variants" /\ new_domains = <<WWW_Example_COM_dot>>) =>
        clean_new = <<example_com>>

C16_Witness ==
    /\ pc = "variants"
    /\ new_domains = <<WWW_Example_COM_dot>>
    /\ Len(clean_new) = 1

InUnitInterval(x) == RLeq(RZero, x) /\ RLeq(x, ROne)

\* C17: a non-empty string scores exactly 1 against itself, with Levenshtein
\* similarity, Jaro-Winkler and trigram similarity all 1, and never scores 1
\* against a string different from it
C17_SelfScoreOne ==
    (pc = "measured" /\ s1 # <<>>) =>
        /\ s1 = s2 =>
              /\ metrics.fwd.lev_sim = ROne
              /\ metrics.fwd.jw_sim = ROne
              /\ metrics.fwd.tri_sim = ROne
              /\ metrics.fwd.similarity = ROne
        /\ s1 # s2 => metrics.fwd.similarity # ROne

\* a valid domain too short to have a trigram, scored against itself
C17_Witness ==
    /\ pc = "measured"
    /\ s1 = s2
    /\ Len(s1) = 2
    /\ s1[1] = "."
    /\ s1[2] # "."
    /\ metrics.fwd.similarity = ROne

\* C18: the Levenshtein similarity is 1 - distance / max(len(a), len(b)),
\* and 1 when both strings are empty
C18_LevenshteinSimilarity ==
    pc = "measured" =>
        metrics.fwd.lev_sim =
            IF s1 = <<>> /\ s2 = <<>> THEN ROne
            ELSE RSub(ROne, Rat(metrics.fwd.lev_dist, Max(Len(s1), Len(s2))))

\* C19: the three sub-metrics and the weighted score lie in [0, 1], and
\* matches - transpositions / 2 is not negative
C19_ScoresInUnitInterval ==
    pc = "measured" =>
        /\ InUnitInterval(metrics.fwd.lev_sim)
        /\ InUnitInterval(metrics.fwd.jw_sim)
        /\ InUnitInterval(metrics.fwd.tri_sim)
        /\ InUnitInterval(metrics.fwd.similarity)
        /\ 2 * metrics.fwd.matches - metrics.fwd.transpositions >= 0

\* a pair with transposed matches and a common prefix, so that the
\* transposition term and the prefix boost both take part
C19_Witness ==
    /\ pc = "measured"
    /\ metrics.fwd.transpositions > 0
    /\ PrefixLen(s1, s2) > 0
    /\ RLess(RZero, metrics.fwd.lev_sim)
    /\ RLess(RZero, metrics.fwd.tri_sim)
    /\ RLess(metrics.fwd.jw_sim, ROne)

ClaimMappings ==
    << <<"o", "0">>, <<"l", "1">>, <<"i", "l">>, <<"a", "@">>, <<"e", "3">>, <<"s", "5">> >>

ClaimPrefixes == << <<"t", "h", "e">>, <<"m", "y">>, <<"g", "o">>, <<"w", "o", "r", "k">>, <<"j", "o", "b">> >>

ClaimSuffixes == << <<"c", "a", "r", "e", "e", "r">>, <<"h", "r">>, <<"l", "o", "g", "i", "n">>, <<"s", "e", "c", "u", "r", "e">> >>

ClaimTlds == << <<"c", "o">>, <<"c", "m">>, <<"n", "e", "t">>, <<"o", "r", "g">> >>

HasDot(d) == \E i \in 1..Len(d) : d[i] = "."

LastDot(d) == CHOOSE i \in 1..Len(d) : d[i] = "." /\ \A j \in (i + 1)..Len(d) : d[j] # "."

\* everything before the last ".", or the whole string
ClaimBase(d) == IF HasDot(d) THEN [i \in 1..(LastDot(d) - 1) |-> d[i]] ELSE d

\* everything after the last ".", or "com"
ClaimTld(d) ==
    IF HasDot(d) THEN [i \in 1..(Len(d) - LastDot(d)) |-> d[LastDot(d) + i]]
    ELSE <<"c", "o", "m">>

\* the variants the claim lists for one approved domain, in its order
ClaimVariantsOf(d) ==
    LET base == ClaimBase(d)
        tld == ClaimTld(d)
        Name(b) == b \o <<".">> \o tld
        Occurs(m) == \E i \in 1..Len(base) : base[i] = m[1]
        First(c) == CHOOSE i \in 1..Len(base) : base[i] = c /\ \A j \in 1..(i - 1) : base[j] # c
        used == SelectSeq(ClaimMappings, Occurs)
        Other(t) == t # tld
        swaps == SelectSeq(ClaimTlds, Other)
    IN [k \in 1..Len(used) |->
            Name([i \in 1..Len(base) |-> IF i = First(used[k][1]) THEN used[k][2] ELSE base[i]])]
       \o [k \in 1..Len(ClaimPrefixes) |-> Name(ClaimPrefixes[k] \o base)]
       \o [k \in 1..(2 * Len(ClaimSuffixes)) |->
            IF k % 2 = 1 THEN Name(base \o ClaimSuffixes[(k + 1) \div 2])
            ELSE Name(base \o <<"-">> \o ClaimSuffixes[k \div 2])]
       \o [k \in 1..Len(swaps) |-> base \o <<".">> \o swaps[k]]

RECURSIVE ClaimConcat(_)
ClaimConcat(approved) ==
    IF approved = <<>> THEN <<>>
    ELSE ClaimVariantsOf(Head(approved)) \o ClaimConcat(Tail(approved))

FirstPos(xs, x) == CHOOSE i \in 1..Len(xs) : xs[i] = x /\ \A j \in 1..(i - 1) : xs[j] # x

\* C21: the variants are the first occurrences, in order, of the list made
\* by appending, for each approved domain in input order, its homoglyph
\* variants, its five prefix variants, its suffix variants (plain, then
\* hyphenated, per suffix) and its TLD swaps
C21_VariantList ==
    pc = "score" =>
        LET all == ClaimConcat(clean_approved)
        IN /\ \A i, j \in 1..Len(variants) : i # j => variants[i] # variants[j]
           /\ Range(variants) = Range(all)
           /\ \A i, j \in 1..Len(variants) :
                 i < j => FirstPos(all, variants[i]) < FirstPos(all, variants[j])

\* two approved domains with the same base: their common TLD swaps are kept once
C21_Witness ==
    /\ pc = "score"
    /\ clean_approved = <<a_co, a_net>>
    /\ Len(variants) < Len(ClaimConcat(clean_approved))
    /\ variants[1] = at_co

\* C29: no variant generated from an approved domain is that domain, and
\* every variant has a "."
C29_VariantsDifferFromSource ==
    pc = "score" =>
        /\ \A k \in 1..Len(clean_approved) :
              \A n \in 1..Len(VariantsOf(clean_approved[k])) :
                  VariantsOf(clean_approved[k])[n] # clean_approved[k]
        /\ \A n \in 1..Len(variants) : \E i \in 1..Len(variants[n]) : variants[n][i] = "."

\* a variant of one approved domain that is another approved domain
C29_Witness ==
    /\ pc = "score"
    /\ clean_approved = <<a_co, at_co>>
    /\ \E n \in 1..Len(variants) : variants[n] = at_co

\* the classic edit distance between a[i..] and b[j..]: the number of
\* characters left when one string is used up, nothing for equal first
\* characters, otherwise one deletion, insertion or substitution
RECURSIVE EditDistanceFrom(_, _, _, _)
EditDistanceFrom(a, b, i, j) ==
    IF i > Len(a) THEN Len(b) - j + 1
    ELSE IF j > Len(b) THEN Len(a) - i + 1
    ELSE IF a[i] = b[j] THEN EditDistanceFrom(a, b, i + 1, j + 1)
    ELSE LET del == EditDistanceFrom(a, b, i + 1, j)
             ins == EditDistanceFrom(a, b, i, j + 1)
             sub == EditDistanceFrom(a, b, i + 1, j + 1)
         IN 1 + (IF del <= ins /\ del <= sub THEN del ELSE IF ins <= sub THEN ins ELSE sub)

\* C22: levenshtein_distance is the classic unit-cost edit distance, for
\* empty arguments too and in either argument order
C22_ClassicEditDistance ==
    pc = "measured" =>
        LET distance == EditDistanceFrom(s1, s2, 1, 1)
        IN metrics.fwd.lev_dist = distance /\ metrics.bwd.lev_dist = distance

\* a shorter first argument (the call swaps them) and a distance that needs
\* a substitution next to an insertion
C22_Witness ==
    /\ pc = "measured"
    /\ 0 < Len(s1)
    /\ Len(s1) < Len(s2)
    /\ metrics.fwd.lev_dist > Len(s2) - Len(s1)
    /\ metrics.fwd.lev_dist < Len(s2)

\* the records of the output for candidate c, in output order
RecordsOf(c) == LET IsOf(r) == r.domain = c IN SelectSeq(candidates, IsOf)

\* C23: the record of a candidate, or its absence, is what score_candidates
\* returns for that candidate alone with the same approved list, variants and
\* threshold, and the output is these records in descending order of
\* similarity, equal ones in candidate order
C23_CandidatesIndependent ==
    pc = "report" =>
        /\ \A i \in 1..Len(clean_new) :
              RecordsOf(clean_new[i]) =
                  score_candidates(<<clean_new[i]>>, clean_approved, variants, threshold)
        /\ \A n \in 1..Len(candidates) : candidates[n].domain \in Range(clean_new)
        /\ \A m, n \in 1..Len(candidates) :
              m < n =>
                  \/ candidates[m].similarity > candidates[n].similarity
                  \/ /\ candidates[m].similarity = candidates[n].similarity
                     /\ PosIn(clean_new, candidates[m].domain) < PosIn(clean_new, candidates[n].domain)

\* the second candidate of the batch is reported ahead of the first, each
\* with its own best match
C23_Witness ==
    /\ pc = "report"
    /\ Len(clean_new) = 2
    /\ Len(candidates) = 2
    /\ candidates[1].domain = clean_new[2]
    /\ candidates[1].looks_like # candidates[2].looks_like

\* C24 as stated: a candidate with some target within edit distance 2 has a
\* record, whatever the threshold
C24_NearTargetAsStated ==
    pc = "report" =>
        \A i \in 1..Len(clean_new) :
            (\E k \in 1..Len(AllTargets) : levenshtein_distance(clean_new[i], AllTargets[k]) <= 2)
                => \E r \in Records : r.domain = clean_new[i]

\* C24 amended: a candidate whose best-scoring target (score above 0) is
\* within edit distance 2 has a record whatever the threshold; a candidate
\* whose best-scoring target is further away and scores below the threshold
\* has none, whatever other targets are near
C24_NearBestTarget ==
    (pc = "report" /\ AllTargets # <<>>) =>
        \A i \in 1..Len(clean_new) :
            LET c == clean_new[i]
                best_target == AllTargets[BestIndex(c)]
                best == Similarity(c, best_target)
                near == levenshtein_distance(c, best_target) <= 2
                emitted == \E r \in Records : r.domain = c
            IN /\ (near /\ RLess(RZero, best)) => emitted
               /\ (~near /\ RLess(best, threshold)) => ~emitted

\* go.co is left out at the default threshold: the variant ab.co is within
\* edit distance 2 of it, its best-scoring target is further away
C24_Witness ==
    /\ pc = "report"
    /\ threshold = DefaultThreshold
    /\ clean_new = <<go_co>>
    /\ candidates = <<>>
    /\ \E k \in 1..Len(AllTargets) : AllTargets[k] = ab_co
    /\ levenshtein_distance(go_co, ab_co) <= 2
    /\ levenshtein_distance(go_co, AllTargets[BestIndex(go_co)]) > 2

\* C25: a candidate that is in the approved list has a record, whatever the
\* threshold, with itself as looks_like, similarity 1.0, reason char_swap and
\* matched_from approved
C25_ApprovedCandidateReported ==
    pc = "report" =>
        \A i \in 1..Len(clean_new) :
            clean_new[i] \in Range(clean_approved) =>
                \E r \in Records :
                    /\ r.domain = clean_new[i]
                    /\ r.looks_like = clean_new[i]
                    /\ r.similarity = 1000
                    /\ r.reason = "char_swap"
                    /\ r.matched_from = "approved"

C25_Witness ==
    /\ pc = "report"
    /\ threshold = AboveRangeThreshold
    /\ Len(clean_new) = 2
    /\ clean_new[2] \in Range(clean_approved)
    /\ \E r \in Records : r.domain = clean_new[2] /\ r.looks_like = clean_new[2]

\* C26: a record has reason char_swap exactly when its domain is within edit
\* distance 2 of its looks_like; a record whose unrounded similarity is below
\* the threshold has reason char_swap; reason and matched_from are those of
\* the looks_like target, not of a target that was the best one earlier
C26_ReasonOfBestTarget ==
    pc = "report" =>
        \A r \in Records :
            LET near == levenshtein_distance(r.domain, r.looks_like) <= 2
            IN /\ r.reason = "char_swap" <=> near
               /\ RLess(Similarity(r.domain, r.looks_like), threshold) => r.reason = "char_swap"
               /\ r.reason = ReasonFor(r.domain, r.looks_like)
               /\ r.matched_from = MatchedFrom(r.looks_like, clean_approved)

\* a record below the threshold whose looks_like replaced an earlier best
\* target with another reason and another origin
C26_Witness ==
    /\ pc = "report"
    /\ Len(AllTargets) = 2
    /\ \E r \in Records :
           /\ r.looks_like = AllTargets[2]
           /\ RLess(Similarity(r.domain, r.looks_like), threshold)
           /\ RLess(RZero, Similarity(r.domain, AllTargets[1]))
           /\ ReasonFor(r.domain, AllTargets[1]) # r.reason
           /\ MatchedFrom(AllTargets[1], clean_approved) # r.matched_from

\* C27: the output for a higher threshold is the output for the present
\* threshold with some records removed: the records left are the same, in
\* the same order
C27_ThresholdMonotone ==
    pc = "report" =>
        \A t \in MatchThresholds :
            RLess(threshold, t) =>
                LET higher == score_candidates(clean_new, clean_approved, variants, t)
                    Stays(r) == \E n \in 1..Len(higher) : higher[n] = r
                IN higher = SelectSeq(candidates, Stays)

\* two records at threshold 0: the default threshold removes the one that
\* is further than two edits from its best match, the other one stays
C27_Witness ==
    /\ pc = "report"
    /\ threshold = RZero
    /\ Len(candidates) = 2
    /\ candidates[1].similarity < 850
    /\ candidates[1].domain = clean_new[2]
    /\ score_candidates(clean_new, clean_approved, variants, DefaultThreshold) = <<candidates[1]>>

\* C28: at most one record per candidate, every record's domain is a
\* candidate and its looks_like a target; no targets, no records
C28_RecordsWithinInputs ==
    pc = "report" =>
        /\ Len(candidates) <= Len(clean_new)
        /\ \A m, n \in 1..Len(candidates) : m # n => candidates[m].domain # candidates[n].domain
        /\ \A n \in 1..Len(candidates) :
              /\ \E i \in 1..Len(clean_new) : clean_new[i] = candidates[n].domain
              /\ \E k \in 1..Len(AllTargets) : AllTargets[k] = candidates[n].looks_like
        /\ AllTargets = <<>> => candidates = <<>>

\* two targets that both improve on the best match, one record
C28_Witness ==
    /\ pc = "report"
    /\ Len(clean_new) = 2
    /\ Len(AllTargets) = 2
    /\ Len(candidates) = 1
    /\ candidates[1].looks_like = AllTargets[2]
    /\ RLess(RZero, Similarity(candidates[1].domain, AllTargets[1]))

\* C30: the polling loop ends; the count never passes max_polls however long
\* the run stays active; an iteration whose poll raises raises the count by
\* one like any other, and ends the loop when the count has passed
\* PollErrorLimit
C30_PollingTerminates ==
    /\ [](poll_count <= max_polls)
    /\ [][(pc = "poll" /\ KeepPolling /\ poll_outcome' = "exception") =>
              /\ poll_count' = poll_count + 1
              /\ (poll_count' > PollErrorLimit => pc' = "polled")]_vars
    /\ [][(pc = "poll" /\ pc' = "poll") => poll_count' = poll_count + 1]_vars
    /\ <>(pc = "polled")

\* the loop was left at the limit with the run still active, the last poll
\* having returned
C30_Witness ==
    /\ pc = "polled"
    /\ poll_count = max_polls
    /\ run_status \in ActiveStatuses
    /\ poll_outcome = "status"

====
